---- MODULE Spec2Model ----
(***************************************************************************)
(* A model of src/main.py: the FastAPI application of the repository.      *)
(* The state is the module-level persons list and, for every worker that   *)
(* serves requests, the request it holds and the response it produced.     *)
(* A request is received (its parameters pass the constraints declared in  *)
(* the handler's signature and in the models) or rejected (they do not),   *)
(* then the path operation function runs, then the response is sent.       *)
(*                                                                         *)
(* Encoding of Python values: None is the empty tuple <<>> and a present   *)
(* value v of an optional field, parameter or header is <<v>>; a dict is a *)
(* function from its keys to its values; an Enum member is its value.      *)
(* The float 'size(kb)' of post_image is kept in tenths of a kilobyte.     *)
(***************************************************************************)
EXTENDS Integers, Sequences, FiniteSets, TLC

VARIABLES persons, req, resp

vars == <<persons, req, resp>>

\* ------------------------------------------------------------------ bounds

\* Number of workers serving requests side by side.
NumWorkers == 2

\* Largest person_id a request carries; larger than every registered id.
MaxPersonId == 6

Workers == 1..NumWorkers

\* ------------------------------------------------- constants of the source

NameMinLength == 1
NameMaxLength == 50
LocationMinLength == 1
LocationMaxLength == 50
QueryNameMinLength == 1
QueryNameMaxLength == 50
AgeGt == 0
AgeLe == 115
PasswordMinLength == 8
UsernameMaxLength == 20
PersonIdGt == 0
ContactNameMaxLength == 20
ContactNameMinLength == 1
MessageMinLength == 20
BytesPerKb == 1024
HTTP_200_OK == 200
HTTP_201_CREATED == 201
HTTP_302_FOUND == 302
HTTP_404_NOT_FOUND == 404

\* ------------------------------------------------------------ Python values

None == <<>>

Some(v) == <<v>>

\* class HairColor(Enum)
HairColor == {"white", "brown", "black", "blonde", "red", "green", "blue"}

\* The fields the models declare, in the classes that declare them.
LocationFields == {"city", "state", "country"}

PersonBaseFields ==
    {"first_name", "last_name", "age", "email", "hair_color", "is_married", "website"}

PersonFields == PersonBaseFields \cup {"password"}

PersonOutFields == PersonBaseFields

LoginOutFields == {"username"}

\* ------------------------------------------------- declared field constraints

\* Field(min_length=lo, max_length=hi) on a str
StrBetween(s, lo, hi) == Len(s) >= lo /\ Len(s) <= hi

\* class Location: every field defaults to None, and a str given for it is
\* held to its length bounds.
ValidLocation(l) ==
    /\ DOMAIN l = LocationFields
    /\ \A k \in LocationFields :
          l[k] = None \/ StrBetween(l[k][1], LocationMinLength, LocationMaxLength)

\* class PersonBase. The inputs hold well-formed email addresses and URLs only:
\* the shape of an EmailStr or HttpUrl is the validation library's to decide.
ValidPersonBase(p) ==
    /\ StrBetween(p.first_name, NameMinLength, NameMaxLength)
    /\ StrBetween(p.last_name, NameMinLength, NameMaxLength)
    /\ p.age > AgeGt
    /\ p.age <= AgeLe
    /\ p.hair_color = None \/ p.hair_color[1] \in HairColor
    /\ p.is_married = None \/ p.is_married[1] \in BOOLEAN

\* class Person(PersonBase): the base fields and the password.
ValidPerson(p) ==
    /\ DOMAIN p = PersonFields
    /\ ValidPersonBase(p)
    /\ Len(p.password) >= PasswordMinLength

\* Path(..., gt=0)
ValidPersonId(i) == i > PersonIdGt

\* ------------------------------------------------------------- pure helpers

\* BaseModel.dict(): a new dict holding every field of the model.
dict(m) == [k \in DOMAIN m |-> m[k]]

\* Mutant: the update is made on a copy and lost.
update_lost(d, other) == d

\* Mutant: a key the dict already holds keeps its value.
update_first_wins(d, other) ==
    [k \in DOMAIN d \cup DOMAIN other |-> IF k \in DOMAIN d THEN d[k] ELSE other[k]]

\* Mutant: the dict is replaced by other instead of being updated with it.
update_only_other(d, other) == other

\* dict.update(other): every key of other is written over the dict.
update(d, other) ==
    [k \in DOMAIN d \cup DOMAIN other |-> IF k \in DOMAIN other THEN other[k] ELSE d[k]]

\* Mutant: the decorator names no response_model and the value goes out whole.
response_model_missing(fields, value) == value

\* response_model=M: the response body holds the fields of M, and only those.
response_model(fields, value) == [k \in fields |-> value[k]]

\* Mutant: the search stops one element short of the end of the list.
InPersons_short(i) == \E n \in 1..(Len(persons) - 1) : persons[n] = i

\* person_id not in persons
InPersons(i) == \E n \in 1..Len(persons) : persons[n] = i

\* round(x, ndigits=1) of x = n / 1024, in tenths: to the nearest tenth, a tie
\* to the even one.
RoundTenths(n) ==
    LET q == (n * 10) \div BytesPerKb
        r == (n * 10) % BytesPerKb
    IN  IF 2 * r > BytesPerKb \/ (2 * r = BytesPerKb /\ q % 2 = 1) THEN q + 1 ELSE q

\* ---------------------------------------------------------------- responses

Pending == [kind |-> "pending"]

NoResponse == [kind |-> "none"]

Idle == [op |-> "idle"]

\* The handler returned: the status code of its decorator and the body.
Ok(status, body) == [kind |-> "ok", status |-> status, body |-> body]

\* raise HTTPException(status_code, detail)
HttpError(status, detail) == [kind |-> "http_exception", status |-> status, detail |-> detail]

\* The request did not pass the declared constraints: the handler is not called.
Unprocessable == [kind |-> "validation_error", status |-> 422]

\* An exception other than HTTPException left the handler.
ServerError == [kind |-> "server_error", status |-> 500]

\* ------------------------------------------------------------ request inputs

\* The example values of the models (Field(example=...)), and around them the
\* values at which the declared constraints decide.
BasePerson ==
    [first_name |-> "Nicolas", last_name |-> "Implant", age |-> 25,
     email |-> "nicolas@implant.com", hair_color |-> None, is_married |-> None,
     website |-> None, password |-> "HolaSoyNico"]

FullPerson ==
    [BasePerson EXCEPT !.hair_color = Some("black"), !.is_married = Some(FALSE),
                       !.website = Some("https://www.google.com/")]

PersonInputs ==
    {BasePerson, FullPerson,
     [BasePerson EXCEPT !.age = AgeGt],
     [FullPerson EXCEPT !.password = "short"]}

NoLocation == [city |-> None, state |-> None, country |-> None]

Bogota == [city |-> Some("Bogota"), state |-> Some("Cundinamarca"), country |-> Some("Colombia")]

LocationInputs == {NoLocation, Bogota, [Bogota EXCEPT !.city = Some("")]}

PersonIdInputs == PersonIdGt..MaxPersonId

UpdateIdInputs == {PersonIdGt, PersonIdGt + 1, MaxPersonId}

LongUsername == "a-username-of-more-than-20-chars"

ShortMessage == "too short"

LongMessage == "I can not log in since the last update"

ImageInputs ==
    {[filename |-> "empty.png", content_type |-> "image/png", size |-> 0],
     [filename |-> "icon.png", content_type |-> "image/png", size |-> 256],
     [filename |-> "photo.jpg", content_type |-> "image/jpeg", size |-> 2000]}

HomeRequests == {[op |-> "home"]}

CreateRequests == {[op |-> "create_person", person |-> p] : p \in PersonInputs}

DetailRequests ==
    {[op |-> "show_person_detail", name |-> n, age |-> a] :
        n \in {None, Some("Isabella")}, a \in {None, Some(10)}}

ShowRequests == {[op |-> "show_person", person_id |-> i] : i \in PersonIdInputs}

UpdateRequests ==
    {[op |-> "update_person", person_id |-> i, person |-> p, location |-> l] :
        i \in UpdateIdInputs, p \in PersonInputs, l \in LocationInputs}

LoginRequests ==
    {[op |-> "login", username |-> u, password |-> "HolaSoyNico"] :
        u \in {"Nicolasimplant", LongUsername}}

ContactRequests ==
    {[op |-> "contact", first_name |-> "Nicolas", last_name |-> "Implant",
      email |-> "nicolas@implant.com", message |-> m, user_agent |-> ua, ads |-> None] :
        m \in {LongMessage}, ua \in {None, Some("Mozilla/5.0")}}
    \cup
    {[op |-> "contact", first_name |-> "Nicolas", last_name |-> "Implant",
      email |-> "nicolas@implant.com", message |-> ShortMessage,
      user_agent |-> None, ads |-> None]}

ImageRequests == {[op |-> "post_image", image |-> f] : f \in ImageInputs}

Requests ==
    HomeRequests \cup CreateRequests \cup DetailRequests \cup ShowRequests
    \cup UpdateRequests \cup LoginRequests \cup ContactRequests \cup ImageRequests

\* The constraints the signature of each path operation function declares.
ValidRequest(r) ==
    CASE r.op = "home" -> TRUE
      [] r.op = "create_person" -> ValidPerson(r.person)
      [] r.op = "show_person_detail" ->
            /\ r.name = None \/ StrBetween(r.name[1], QueryNameMinLength, QueryNameMaxLength)
            /\ r.age # None
      [] r.op = "show_person" -> ValidPersonId(r.person_id)
      [] r.op = "update_person" ->
            /\ ValidPersonId(r.person_id)
            /\ ValidPerson(r.person)
            /\ ValidLocation(r.location)
      [] r.op = "login" -> TRUE
      [] r.op = "contact" ->
            /\ StrBetween(r.first_name, ContactNameMinLength, ContactNameMaxLength)
            /\ StrBetween(r.last_name, ContactNameMinLength, ContactNameMaxLength)
            /\ Len(r.message) >= MessageMinLength
      [] r.op = "post_image" -> TRUE

\* ------------------------------------------------------------------- state

\* persons = [1,2,3,4,5]
Init ==
    /\ persons = <<1, 2, 3, 4, 5>>
    /\ req = [w \in Workers |-> Idle]
    /\ resp = [w \in Workers |-> NoResponse]

Running(w, op) == req[w].op = op /\ resp[w] = Pending

Return(w, r) == resp' = [resp EXCEPT ![w] = r]

\* A request whose parameters satisfy the declared constraints reaches its handler.
Receive(w) ==
    /\ req[w] = Idle
    /\ \E r \in {x \in Requests : ValidRequest(x)} :
          req' = [req EXCEPT ![w] = r]
    /\ resp' = [resp EXCEPT ![w] = Pending]
    /\ UNCHANGED persons

\* A request whose parameters do not is answered without calling the handler.
Reject(w) ==
    /\ req[w] = Idle
    /\ \E r \in {x \in Requests : ~ValidRequest(x)} :
          req' = [req EXCEPT ![w] = r]
    /\ resp' = [resp EXCEPT ![w] = Unprocessable]
    /\ UNCHANGED persons

\* The response leaves; the request-scoped records are discarded.
Send(w) ==
    /\ resp[w].kind \notin {"none", "pending"}
    /\ req' = [req EXCEPT ![w] = Idle]
    /\ resp' = [resp EXCEPT ![w] = NoResponse]
    /\ UNCHANGED persons

\* --------------------------------------------------- path operation functions

home(w) ==
    /\ Running(w, "home")
    /\ Return(w, Ok(HTTP_200_OK, [Hello |-> "World"]))
    /\ UNCHANGED <<persons, req>>

\* Mutant: the created person is registered in the module-level list.
create_person_registers(w) ==
    /\ Running(w, "create_person")
    /\ Return(w, Ok(HTTP_201_CREATED, response_model(PersonOutFields, req[w].person)))
    /\ persons' = Append(persons, Len(persons) + 1)
    /\ UNCHANGED req

create_person(w) ==
    /\ Running(w, "create_person")
    /\ Return(w, Ok(HTTP_201_CREATED, response_model(PersonOutFields, req[w].person)))
    /\ UNCHANGED <<persons, req>>

\* The first show_person of the source, GET /person/detail.
show_person_detail(w) ==
    /\ Running(w, "show_person_detail")
    /\ Return(w, Ok(HTTP_200_OK, (req[w].name :> req[w].age[1])))
    /\ UNCHANGED <<persons, req>>

\* The second show_person of the source, GET /person/detail/{person_id}.
show_person(w) ==
    /\ Running(w, "show_person")
    /\ LET person_id == req[w].person_id
       IN  IF ~InPersons(person_id)
           THEN Return(w, HttpError(HTTP_404_NOT_FOUND, "This person doesn't exist"))
           ELSE Return(w, Ok(HTTP_302_FOUND, (person_id :> "It exists!")))
    /\ UNCHANGED <<persons, req>>

\* Mutant: the path parameter is written into the merged dict.
update_person_with_id(w) ==
    /\ Running(w, "update_person")
    /\ LET results == update(dict(req[w].person), dict(req[w].location))
       IN  Return(w, Ok(HTTP_302_FOUND, update(results, [person_id |-> req[w].person_id])))
    /\ UNCHANGED <<persons, req>>

\* Mutant: results is the person's own attribute dict, so the update writes
\* the location's keys into the person record.
update_person_in_place(w) ==
    /\ Running(w, "update_person")
    /\ LET results == update(req[w].person, dict(req[w].location))
       IN  /\ Return(w, Ok(HTTP_302_FOUND, results))
           /\ req' = [req EXCEPT ![w].person = results]
    /\ UNCHANGED persons

\* Mutant: a location field that is None makes the handler raise.
update_person_none_raises(w) ==
    /\ Running(w, "update_person")
    /\ LET results == update(dict(req[w].person), dict(req[w].location))
       IN  IF \E k \in DOMAIN req[w].location : req[w].location[k] = None
           THEN Return(w, ServerError)
           ELSE Return(w, Ok(HTTP_302_FOUND, results))
    /\ UNCHANGED <<persons, req>>

update_person(w) ==
    /\ Running(w, "update_person")
    /\ LET results == update(dict(req[w].person), dict(req[w].location))
       IN  Return(w, Ok(HTTP_302_FOUND, results))
    /\ UNCHANGED <<persons, req>>

\* LoginOut(username = username) raises when username breaks max_length.
login(w) ==
    /\ Running(w, "login")
    /\ LET username == req[w].username
       IN  IF Len(username) <= UsernameMaxLength
           THEN Return(w, Ok(HTTP_200_OK,
                             response_model(LoginOutFields, [username |-> username])))
           ELSE Return(w, ServerError)
    /\ UNCHANGED <<persons, req>>

contact(w) ==
    /\ Running(w, "contact")
    /\ Return(w, Ok(HTTP_200_OK, req[w].user_agent))
    /\ UNCHANGED <<persons, req>>

post_image(w) ==
    /\ Running(w, "post_image")
    /\ LET image == req[w].image
       IN  Return(w, Ok(HTTP_200_OK,
                        ("filename" :> image.filename) @@ ("format" :> image.content_type)
                        @@ ("size(kb)" :> RoundTenths(image.size))))
    /\ UNCHANGED <<persons, req>>

Next ==
    \E w \in Workers :
        \/ Receive(w)
        \/ Reject(w)
        \/ Send(w)
        \/ home(w)
        \/ create_person(w)
        \/ show_person_detail(w)
        \/ show_person(w)
        \/ update_person(w)
        \/ login(w)
        \/ contact(w)
        \/ post_image(w)

Spec == Init /\ [][Next]_vars

\* ------------------------------------------ the merge of update_person alone

\* The merge is defined for any two records: here update_person runs on records
\* over a few keys that the two sides may share, and on empty ones.
MergeKeys == {"first_name", "city", "country"}

MergeValues == {"A", "B"}

MergeRecords == UNION {[S -> MergeValues] : S \in SUBSET MergeKeys}

MergeInit ==
    /\ persons = <<1, 2, 3, 4, 5>>
    /\ \E P \in MergeRecords, L \in MergeRecords :
          req = [w \in Workers |->
                    IF w = 1
                    THEN [op |-> "update_person", person_id |-> PersonIdGt + 1,
                          person |-> P, location |-> L]
                    ELSE Idle]
    /\ resp = [w \in Workers |-> IF w = 1 THEN Pending ELSE NoResponse]

MergeNext == \E w \in Workers : update_person(w)

MergeSpec == MergeInit /\ [][MergeNext]_vars

\* ------------------------------------------------------------------ claims

\* update_person has returned on worker w.
Merged(w) == req[w].op = "update_person" /\ resp[w].kind = "ok"

\* C1: the mapping update_person returns never contains the key 'password'.
C1_UpdateHasNoPassword ==
    \A w \in Workers : Merged(w) => "password" \notin DOMAIN resp[w].body

\* C2: the response of create_person holds no password, and holds every
\* PersonBase field with the value of the person that was submitted.
C2_CreateHidesPassword ==
    \A w \in Workers :
        (req[w].op = "create_person" /\ resp[w].kind = "ok") =>
            /\ "password" \notin DOMAIN resp[w].body
            /\ DOMAIN resp[w].body = PersonBaseFields
            /\ \A k \in PersonBaseFields : resp[w].body[k] = req[w].person[k]

C2_Witness ==
    \E w \in Workers :
        /\ req[w].op = "create_person"
        /\ resp[w].kind = "ok"
        /\ req[w].person = FullPerson
        /\ "password" \in DOMAIN req[w].person

\* C3: for a person P and a location L with disjoint keys, the merged mapping
\* has exactly the keys of P and of L, each with the value of its record.
C3_MergeIsUnion ==
    \A w \in Workers :
        Merged(w) =>
            LET P == req[w].person
                L == req[w].location
            IN  DOMAIN P \cap DOMAIN L = {} =>
                    /\ DOMAIN resp[w].body = DOMAIN P \cup DOMAIN L
                    /\ \A k \in DOMAIN P : resp[w].body[k] = P[k]
                    /\ \A k \in DOMAIN L : resp[w].body[k] = L[k]

C3_Witness ==
    \E w \in Workers :
        /\ Merged(w)
        /\ req[w].person = FullPerson
        /\ req[w].location = Bogota
        /\ resp[w].body.city = Some("Bogota")
        /\ resp[w].body.first_name = "Nicolas"

\* C4: for every key P and L share, the merged value is L's, and it is not
\* P's where the two differ.
C4_SecondWins ==
    \A w \in Workers :
        Merged(w) =>
            LET P == req[w].person
                L == req[w].location
            IN  \A k \in DOMAIN P \cap DOMAIN L :
                    /\ resp[w].body[k] = L[k]
                    /\ P[k] # L[k] => resp[w].body[k] # P[k]

C4_Witness ==
    \E w \in Workers :
        /\ Merged(w)
        /\ req[w].person = [city |-> "A"]
        /\ req[w].location = [city |-> "B"]
        /\ resp[w].body = [city |-> "B"]

\* C5: merging with an empty record gives the flattened other record.
C5_EmptyIsIdentity ==
    \A w \in Workers :
        Merged(w) =>
            LET P == req[w].person
                L == req[w].location
            IN  /\ DOMAIN L = {} => resp[w].body = dict(P)
                /\ DOMAIN P = {} => resp[w].body = dict(L)

C5_Witness ==
    \E w \in Workers :
        /\ Merged(w)
        /\ req[w].location = <<>>
        /\ req[w].person = [first_name |-> "A", city |-> "B"]
        /\ resp[w].body = [first_name |-> "A", city |-> "B"]

\* C6: two update_person requests with equal person and location get equal
\* merged mappings, whichever workers ran them and in whichever order.
C6_MergeDeterministic ==
    \A v, w \in Workers :
        (/\ Merged(v)
         /\ Merged(w)
         /\ req[v].person = req[w].person
         /\ req[v].location = req[w].location) => resp[v].body = resp[w].body

C6_Witness ==
    \E v, w \in Workers :
        /\ v # w
        /\ Merged(v)
        /\ Merged(w)
        /\ req[v].person = req[w].person
        /\ req[v].location = req[w].location
        /\ req[v].person_id # req[w].person_id

\* C7: the step in which update_person returns changes neither the person
\* and location records of the request nor the persons list.
C7_MergeHasNoSideEffect ==
    [][\A w \in Workers :
          (Running(w, "update_person") /\ resp'[w].kind # "pending") =>
              /\ req'[w] = req[w]
              /\ persons' = persons]_vars

C7_Witness ==
    \E w \in Workers :
        /\ Merged(w)
        /\ req[w].person = FullPerson
        /\ req[w].location = Bogota

\* C8: update_person on validated records always can run, and ends with the
\* merged mapping, never with an error.
C8_MergeCannotFail ==
    \A w \in Workers :
        (req[w].op = "update_person" /\ ValidRequest(req[w])) =>
            \/ resp[w] = Pending /\ ENABLED update_person(w)
            \/ /\ resp[w].kind = "ok"
               /\ resp[w].status = HTTP_302_FOUND
               /\ DOMAIN resp[w].body = PersonFields \cup LocationFields

C8_Witness ==
    \E w \in Workers :
        /\ Merged(w)
        /\ req[w].location = NoLocation
        /\ resp[w].body.city = None

\* C9: for person_id > 0 the handler of GET /person/detail/{person_id} ends
\* in the 404 error exactly when person_id is not in persons, and returns
\* {person_id: 'It exists!'} otherwise.
C9_FoundOrNotFound ==
    \A w \in Workers :
        (req[w].op = "show_person" /\ req[w].person_id > 0) =>
            LET id == req[w].person_id
                found == \E n \in DOMAIN persons : persons[n] = id
            IN  \/ resp[w] = Pending /\ ENABLED show_person(w)
                \/ /\ ~found
                   /\ resp[w].kind = "http_exception"
                   /\ resp[w].status = 404
                   /\ resp[w].detail = "This person doesn't exist"
                \/ /\ found
                   /\ resp[w].kind = "ok"
                   /\ resp[w].body = (id :> "It exists!")

C9_Witness ==
    \E v, w \in Workers :
        /\ req[v].op = "show_person"
        /\ req[v].person_id = 5
        /\ resp[v].kind = "ok"
        /\ req[w].op = "show_person"
        /\ req[w].person_id = MaxPersonId
        /\ resp[w].kind = "http_exception"

\* C10: whatever requests have been served, the persons list is [1,2,3,4,5].
C10_PersonsNeverChange == persons = <<1, 2, 3, 4, 5>>

C10_Witness ==
    \E v, w \in Workers :
        /\ req[v].op = "create_person"
        /\ resp[v].kind = "ok"
        /\ Merged(w)
        /\ persons = <<1, 2, 3, 4, 5>>

====
